---------------------------- MODULE Spec2Model ----------------------------
(***************************************************************************)
(* State-machine model of src/arduino_code_debug.cpp: the cooperative      *)
(* loop() of the FishControl controller (HTTP request reader, request      *)
(* router, command batch interpreter, deadline scheduler, WiFi logger).    *)
(*                                                                         *)
(* Text is modelled as a sequence of tokens (Seq(STRING)); the patterns    *)
(* the code searches for with indexOf/startsWith are token sequences.      *)
(* A JSON batch is the token "{" followed by one "c" token per element of  *)
(* "cmds" and the closing token "}"; the fields of an element are drawn    *)
(* when the for-loop reaches it (nothing reads them earlier).              *)
(***************************************************************************)
EXTENDS Integers, Sequences, FiniteSets, TLC

(***************************************************************************)
(* Program constants                                                       *)
(***************************************************************************)
NumDevices == 6
HEADER_TIMEOUT == 3000
BODY_TIMEOUT == 2000
LOOP_DELAY == 10
BODY_POLL_DELAY == 1
MIN_SEND_INTERVAL == 1000
\* map(value, 0, 100, 0, 255)
PERCENT_MAX == 100
PWM_MAX == 255

(***************************************************************************)
(* Bounds of the model                                                     *)
(***************************************************************************)
\* connections are accepted only during the first MaxAccept milliseconds
MaxAccept == 15
\* the main loop is followed for MaxTime milliseconds, and beyond that for as
\* long as a deadline lies ahead
MaxTime == 40
\* largest number of elements of "cmds" a client sends
MaxCmds == 2
\* where the millisecond clock wraps. The program's clock is an unsigned long
\* (wraps at 2^32); TLC's integers end at 2^31 - 1, so the model's clock wraps
\* at 2^30, which is far above every timeout and duration
ClockMod == 1073741824
\* largest number of log calls made in one pass of loop() when the logger is
\* followed on its own
MaxCalls == 1
\* the logger on its own is followed for MaxLogTime milliseconds
MaxLogTime == 2000

DevIdx == 0 .. (NumDevices - 1)

deviceNames ==
    <<"inflate_pump_1", "inflate_pump_2", "exhaust_pump_1",
      "exhaust_pump_2", "valve_1", "valve_2">>

isPWM == <<TRUE, TRUE, TRUE, TRUE, FALSE, FALSE>>

(***************************************************************************)
(* Integer helpers: C arithmetic                                           *)
(***************************************************************************)
\* unsigned long arithmetic (32 bits)
U32(x) == x % ClockMod

\* C integer division truncates toward zero
TruncDiv(a, b) ==
    IF (a >= 0) = (b > 0) THEN (IF a >= 0 THEN a ELSE -a) \div (IF b > 0 THEN b ELSE -b)
    ELSE -((IF a >= 0 THEN a ELSE -a) \div (IF b > 0 THEN b ELSE -b))

map_round(x, in_min, in_max, out_min, out_max) ==
    TruncDiv(2 * (x - in_min) * (out_max - out_min) + (in_max - in_min),
             2 * (in_max - in_min)) + out_min

\* Arduino map(): long arithmetic, truncating division
map(x, in_min, in_max, out_min, out_max) ==
    TruncDiv((x - in_min) * (out_max - out_min), in_max - in_min) + out_min


(***************************************************************************)
(* Text as token sequences                                                 *)
(***************************************************************************)
\* String::indexOf(pat) >= 0
Contains(text, pat) ==
    \E k \in 0 .. (Len(text) - Len(pat)) :
        \A j \in 1 .. Len(pat) : text[k + j] = pat[j]

\* String::indexOf(tok) for a one-token pattern: 1-based position, 0 when absent
IndexOf(text, tok) ==
    IF \E k \in 1 .. Len(text) : text[k] = tok
    THEN CHOOSE k \in 1 .. Len(text) :
             text[k] = tok /\ \A j \in 1 .. (k - 1) : text[j] # tok
    ELSE 0

\* String::toLowerCase on a token
ToLower(tok) == IF tok = "Content-Length:" THEN "content-length:" ELSE tok

\* String::toInt: the leading digits, 0 when there are none
ToInt(tok) ==
    CASE tok = "1" -> 1
      [] tok = "2" -> 2
      [] tok = "3" -> 3
      [] tok = "4" -> 4
      [] tok = "5" -> 5
      [] tok = "6" -> 6
      [] tok = "7" -> 7
      [] tok = "8" -> 8
      [] tok = "9" -> 9
      [] OTHER -> 0

\* String::trim of the text after the colon: drops the blanks and the "\r"
Trim(text) == SelectSeq(text, LAMBDA tok : tok \notin {" ", "\r"})

PAT_POST_COMMANDS == <<"POST", " /api/commands">>
PAT_GET_STATUS == <<"GET", " /api/status">>
PAT_OPTIONS == <<"OPTIONS">>
PAT_POST == <<"POST">>

(***************************************************************************)
(* What a client may send                                                  *)
(***************************************************************************)
\* the last two carry a second and a third pattern in their query string
RequestLines ==
    { <<"POST", " /api/commands", " HTTP/1.1", "\r">>,
      <<"GET", " /api/status", " HTTP/1.1", "\r">>,
      <<"OPTIONS", " /api/commands", " HTTP/1.1", "\r">>,
      <<"GET", " /favicon.ico", " HTTP/1.1", "\r">>,
      <<"OPTIONS", " /go?to=", "GET", " /api/status", " HTTP/1.1", "\r">>,
      <<"GET", " /api/status", "?then=", "OPTIONS", "&then=",
        "POST", " /api/commands", " HTTP/1.1", "\r">> }

Digits == <<"1", "2", "3", "4", "5", "6", "7", "8", "9">>

\* the Content-Length header of a whole batch of MaxCmds elements
FullLengthLine == <<"Content-Length:", " ", Digits[MaxCmds + 2], "\r">>

\* Content-Length headers: of a whole batch, one byte short of it, a single
\* byte, and one that is no number
LengthLines ==
    { FullLengthLine,
      <<"content-length:", " ", Digits[MaxCmds + 1], "\r">>,
      <<"Content-Length:", " ", "1", "\r">>,
      <<"Content-Length:", " ", "x", "\r">> }

\* a header whose value is a JSON document with one element in "cmds"
JsonHeaderLine == <<"X-Batch:", " ", "{", "c", "}", "\r">>

EmptyLine == <<"\r">>

\* the lines a client can send next, given the request text received so far:
\* a request line, then at most one header line, then the empty line
NextLines(req) ==
    IF req = <<>> THEN RequestLines
    ELSE IF Len(SelectSeq(req, LAMBDA tok : tok = "\n")) > 1 THEN {EmptyLine}
    ELSE IF req[1] = "POST" THEN LengthLines \cup {JsonHeaderLine, EmptyLine}
    ELSE {FullLengthLine, EmptyLine}

\* the body bytes a client can send next, given the body received so far
NextBody(b) ==
    IF b = <<>> THEN {"{", "junk"}
    ELSE IF b[Len(b)] \in {"}", "junk"} THEN {}
    ELSE IF Len(b) - 1 < MaxCmds THEN {"c", "}"}
    ELSE {"}"}

\* the elements of "cmds" a client can send: dev, act, val, dur
Cmds ==
    { [dev |-> "pump1",  act |-> "setPwr", val |-> 50,  dur |-> 20],
      [dev |-> "pump1",  act |-> "setPwr", val |-> 100, dur |-> 0],
      [dev |-> "pump1",  act |-> "setPwr", val |-> 0,   dur |-> 20],
      [dev |-> "pump1",  act |-> "setSt",  val |-> 1,   dur |-> 20],
      [dev |-> "pump1",  act |-> "spin",   val |-> 50,  dur |-> 20],
      [dev |-> "pump1",  act |-> "set_power", val |-> 50, dur |-> 20],
      [dev |-> "valve1", act |-> "setSt",  val |-> 1,   dur |-> 20],
      [dev |-> "valve1", act |-> "setPwr", val |-> 50,  dur |-> 20],
      [dev |-> "ghost",  act |-> "setPwr", val |-> 50,  dur |-> 20] }

\* how long a slow client takes to start sending its headers
HeaderDelays == {HEADER_TIMEOUT - 1}
StartTimes == {1000}

(***************************************************************************)
(* WiFiLogger                                                              *)
(***************************************************************************)
\* the empty String
EmptyLog == [timestamp |-> 0, level |-> "", message |-> "", category |-> ""]

\* jsonLog
Payload(level, message, category, t) ==
    [timestamp |-> t, level |-> level, message |-> message, category |-> category]

Event(ev, level, ok) == [ev |-> ev, level |-> level, ok |-> ok]

\* a transmission attempt and the jsonLog it carried
Attempt(ev, level, ok, jsonLog) ==
    [ev |-> ev, level |-> level, ok |-> ok, what |-> jsonLog]

\* L: the logger's fields and the trace of what it did in this step;
\* up: whether client.connect to the collector succeeds
\* mutant of sendLogImmediately: a successful transmission clears the
\* pending entry
sendLogImmediately_clears(L, level, message, category, t, up) ==
    LET jsonLog == Payload(level, message, category, t)
    IN  IF up
        THEN [L EXCEPT !.lastLog = EmptyLog,
                       !.hasPendingLog = FALSE,
                       !.trace = Append(@, Attempt("send", level, TRUE, jsonLog))]
        ELSE [L EXCEPT !.lastLog = jsonLog,
                       !.hasPendingLog = TRUE,
                       !.trace = Append(@, Attempt("send", level, FALSE, jsonLog))]

sendLogImmediately(L, level, message, category, t, up) ==
    LET jsonLog == Payload(level, message, category, t)
    IN  IF up
        THEN [L EXCEPT !.trace = Append(@, Attempt("send", level, TRUE, jsonLog))]
        ELSE [L EXCEPT !.lastLog = jsonLog,
                       !.hasPendingLog = TRUE,
                       !.trace = Append(@, Attempt("send", level, FALSE, jsonLog))]

\* mutant of RateLimitOk: no rate limit
RateLimitOk_always(t, lastSendTime) == TRUE

\* the rate limit of log
RateLimitOk(t, lastSendTime) == U32(t - lastSendTime) >= MIN_SEND_INTERVAL

log(L, level, message, category, t, up) ==
    LET C == [L EXCEPT !.trace = Append(@, Event("call", level, TRUE))]
    IN  IF level = "error" \/ level = "warn"
        THEN sendLogImmediately(C, level, message, category, t, up)
        ELSE IF RateLimitOk(t, L.lastSendTime)
             THEN [sendLogImmediately(C, level, message, category, t, up)
                       EXCEPT !.lastSendTime = t]
             ELSE C

\* mutant of retryLastLog: a successful retry keeps the entry pending
retryLastLog_keeps(L, up) ==
    IF L.hasPendingLog /\ L.lastLog # EmptyLog
    THEN [L EXCEPT !.trace = Append(@, Attempt("retry", "", up, L.lastLog))]
    ELSE L

retryLastLog(L, up) ==
    IF L.hasPendingLog /\ L.lastLog # EmptyLog
    THEN IF up
         THEN [L EXCEPT !.hasPendingLog = FALSE, !.lastLog = EmptyLog,
                        !.trace = Append(@, Attempt("retry", "", TRUE, L.lastLog))]
         ELSE [L EXCEPT !.trace = Append(@, Attempt("retry", "", FALSE, L.lastLog))]
    ELSE L

(***************************************************************************)
(* Command batch interpreter                                               *)
(***************************************************************************)
mapDeviceId(backendId) ==
    CASE backendId = "pump1" -> "inflate_pump_1"
      [] backendId = "pump2" -> "inflate_pump_2"
      [] backendId = "pump3" -> "exhaust_pump_1"
      [] backendId = "pump4" -> "exhaust_pump_2"
      [] backendId = "valve1" -> "valve_1"
      [] backendId = "valve2" -> "valve_2"
      [] OTHER -> backendId

mapActionType(backendAction) ==
    CASE backendAction = "setPwr" -> "power"
      [] backendAction = "setSt" -> "state"
      [] OTHER -> backendAction

\* the lookup loop of executeDeviceCommand: first index with that name, or -1
FindDevice(deviceId) ==
    IF \E i \in DevIdx : deviceNames[i + 1] = deviceId
    THEN CHOOSE i \in DevIdx :
             deviceNames[i + 1] = deviceId
             /\ \A j \in DevIdx : j < i => deviceNames[j + 1] # deviceId
    ELSE -1

PwmLevel(v) == [kind |-> "pwm", level |-> v]
DigitalLevel(v) == [kind |-> "digital", level |-> v]

\* mutant of NewEndTime: the value is not looked at
NewEndTime_anyValue(t, value, duration) ==
    IF duration > 0 THEN U32(t + duration) ELSE 0

\* the deadline executeDeviceCommand stores: 0 is "no deadline"
NewEndTime(t, value, duration) ==
    IF duration > 0 /\ value > 0 THEN U32(t + duration) ELSE 0

\* mutant of Applied: isActive is not set
Applied_inactive(S, i, cv, level, value, duration, t, L) ==
    [ok |-> TRUE,
     devices |-> [S.devices EXCEPT ![i] =
                     [currentValue |-> cv, isActive |-> FALSE,
                      endTime |-> NewEndTime(t, value, duration)]],
     pinOut |-> [S.pinOut EXCEPT ![i] = level],
     wrote |-> {i},
     L |-> L]

\* the tail of executeDeviceCommand after a successful write
Applied(S, i, cv, level, value, duration, t, L) ==
    [ok |-> TRUE,
     devices |-> [S.devices EXCEPT ![i] =
                     [currentValue |-> cv, isActive |-> (value > 0),
                      endTime |-> NewEndTime(t, value, duration)]],
     pinOut |-> [S.pinOut EXCEPT ![i] = level],
     wrote |-> {i},
     L |-> L]

\* mutant of Failed: the failure path falls into the deadline handling
Failed_dropsDeadlines(S, L) ==
    [ok |-> FALSE,
     devices |-> [i \in DevIdx |-> [S.devices[i] EXCEPT !.endTime = 0]],
     pinOut |-> S.pinOut, wrote |-> {}, L |-> L]

\* a return false of executeDeviceCommand
Failed(S, L) ==
    [ok |-> FALSE, devices |-> S.devices, pinOut |-> S.pinOut, wrote |-> {}, L |-> L]

\* S: [devices, pinOut, L]; t: millis(); up: the collector accepts connections
executeDeviceCommand(S, deviceId, action, value, duration, t, up) ==
    LET deviceIndex == FindDevice(deviceId) IN
    IF deviceIndex = -1
    THEN Failed(S, log(S.L, "error", "unknown_device", "device_control", t, up))
    ELSE IF action = "power" \/ action = "set_power"
    THEN IF isPWM[deviceIndex + 1]
         THEN LET pwmValue == map(value, 0, PERCENT_MAX, 0, PWM_MAX) IN
              Applied(S, deviceIndex, pwmValue, PwmLevel(pwmValue), value, duration, t,
                      log(S.L, "info", "pwm_set", "device_control", t, up))
         ELSE Failed(S, S.L)
    ELSE IF action = "state" \/ action = "set_state"
    THEN LET state == (value > 0) IN
         Applied(S, deviceIndex, IF state THEN 1 ELSE 0,
                 DigitalLevel(IF state THEN 1 ELSE 0), value, duration, t,
                 log(S.L, "info", "state_set", "device_control", t, up))
    ELSE Failed(S, S.L)

(***************************************************************************)
(* Deadline scheduler                                                      *)
(***************************************************************************)
\* mutants of Expired: the time is not looked at; the "no deadline" value 0
\* is not excluded; only a tick on the very millisecond fires
Expired_ignoresClock(d, t) == d.endTime > 0

Expired_ignoresSentinel(d, t) == t >= d.endTime

Expired_exactTick(d, t) == d.endTime > 0 /\ t = d.endTime

Expired(d, t) == d.endTime > 0 /\ t >= d.endTime

OffLevel(i) == IF isPWM[i + 1] THEN PwmLevel(0) ELSE DigitalLevel(0)

OffState == [currentValue |-> 0, isActive |-> FALSE, endTime |-> 0]

\* the for-loop of checkTimedTasks from index i on
RECURSIVE ScanFrom(_, _, _, _)
ScanFrom(i, S, t, up) ==
    IF i >= NumDevices THEN S
    ELSE IF Expired(S.devices[i], t)
         THEN ScanFrom(i + 1,
                       [devices |-> [S.devices EXCEPT ![i] = OffState],
                        pinOut |-> [S.pinOut EXCEPT ![i] = OffLevel(i)],
                        wrote |-> S.wrote \cup {i},
                        L |-> log(S.L, "info", "timer_off", "timer_task", t, up)],
                       t, up)
         ELSE ScanFrom(i + 1, S, t, up)

(***************************************************************************)
(* JSON payload of a batch request                                         *)
(***************************************************************************)
\* request.substring(jsonStart), jsonStart = request.indexOf("{"); <<>> when
\* the request holds no "{"
JsonData(req) ==
    IF IndexOf(req, "{") = 0 THEN <<>>
    ELSE SubSeq(req, IndexOf(req, "{"), Len(req))

\* deserializeJson from token k on, n elements of "cmds" read so far: the
\* document ends at the closing token and what follows it is not read
RECURSIVE ParseFrom(_, _, _)
ParseFrom(text, k, n) ==
    IF k > Len(text) THEN [ok |-> FALSE, err |-> "IncompleteInput", n |-> 0]
    ELSE IF text[k] = "c" THEN ParseFrom(text, k + 1, n + 1)
    ELSE IF text[k] = "}" THEN [ok |-> TRUE, err |-> "Ok", n |-> n]
    ELSE [ok |-> FALSE, err |-> "InvalidInput", n |-> 0]

deserializeJson(jsonData) == ParseFrom(jsonData, 2, 0)

(***************************************************************************)
(* Request router                                                          *)
(***************************************************************************)
\* mutant of RouterBranch: the status test comes first
RouterBranch_statusFirst(req) ==
    IF Contains(req, PAT_GET_STATUS) THEN "status"
    ELSE IF Contains(req, PAT_POST_COMMANDS) THEN "batch"
    ELSE IF Contains(req, PAT_OPTIONS) THEN "cors"
    ELSE "notfound"

\* the if / else-if chain of handleHTTPRequests
RouterBranch(req) ==
    IF Contains(req, PAT_POST_COMMANDS) THEN "batch"
    ELSE IF Contains(req, PAT_GET_STATUS) THEN "status"
    ELSE IF Contains(req, PAT_OPTIONS) THEN "cors"
    ELSE "notfound"

\* what a handler writes to the client
Response(status, kind, error, executed) ==
    [status |-> status, kind |-> kind, error |-> error, executed |-> executed]

\* the body phase is entered
WantsBody(complete, length, req) ==
    complete /\ length > 0 /\ Contains(req, PAT_POST)

\* the Content-Length a header line sets, given the one parsed so far
ParseLength(line, length) ==
    IF ToLower(line[1]) = "content-length:"
    THEN LET lengthStr == Trim(SubSeq(line, 2, Len(line)))
         IN  IF lengthStr = <<>> THEN 0 ELSE ToInt(lengthStr[1])
    ELSE length

(***************************************************************************)
(* State                                                                   *)
(***************************************************************************)
VARIABLES
    now,            \* millis()
    boot,           \* millis() when loop() first ran
    pc,             \* where loop() is
    devices,        \* DeviceState devices[6]
    pinOut,         \* what analogWrite/digitalWrite last put on each pin
    wifiLogger,     \* lastLog, hasPendingLog, lastSendTime
    connOpen,       \* a connection is accepted and client.stop() not yet called
    request, timeout, contentLength, headersComplete, body, bodyTimeout,
    cmdCount,       \* commands.size()
    cmdIdx,         \* elements of commands the for-loop has passed
    executedCount,
    wrote,          \* history: the devices whose pin the last step wrote
    applied,        \* history: the devices the last step applied a command to
    tried,          \* history: the command the last step ran, as the device
                    \* index looked up (-1: no such device) and the action
    logTrace,       \* history: what the logger did in the last step
    logHist,        \* history: when the last info or debug call was made, when
                    \* one last led to a transmission attempt, when one was last
                    \* transmitted, how the last attempt of any kind ended,
                    \* whether an attempt failed with no successful retry
                    \* since, and what the last such attempt carried
    lastCmd,        \* history: per device, the last command applied to it and when
    resp,           \* history: the responses written while serving this pass
    branch          \* history: the router branch taken in this pass

readerVars == <<request, timeout, contentLength, headersComplete, body, bodyTimeout>>
batchVars == <<cmdCount, cmdIdx, executedCount>>
storeVars == <<devices, pinOut, lastCmd>>
stepHist == <<wrote, applied, tried, logTrace>>
connHist == <<resp, branch>>

vars == <<now, boot, pc, devices, pinOut, wifiLogger, connOpen,
          request, timeout, contentLength, headersComplete, body, bodyTimeout,
          cmdCount, cmdIdx, executedCount,
          wrote, applied, tried, logTrace, logHist, lastCmd, resp, branch>>

\* the step ran no command
NoTry == [dev |-> -2, act |-> ""]

NoCmd == [act |-> "", val |-> 0, dur |-> 0, t0 |-> 0]

\* the logger's fields together with an empty trace for the step
WithTrace(lg) ==
    [lastLog |-> lg.lastLog, hasPendingLog |-> lg.hasPendingLog,
     lastSendTime |-> lg.lastSendTime, trace |-> <<>>]

Fields(L) ==
    [lastLog |-> L.lastLog, hasPendingLog |-> L.hasPendingLog,
     lastSendTime |-> L.lastSendTime]

\* no log call and no retry has been observed yet
NoLogHist ==
    [infoAt |-> -1, infoTryAt |-> -1, infoOkAt |-> -1, attempt |-> "none",
     owed |-> FALSE, failed |-> EmptyLog]

\* the largest position of trace that is in the set at, or 0
LastOf(trace, at) ==
    IF at = {} THEN 0
    ELSE CHOOSE k \in at : \A j \in at : j <= k

Rated(level) == level \in {"info", "debug"}

\* the history after a step in which the logger did what trace says, at time t
HistAfter(h, trace, t) ==
    LET attempts == SelectSeq(trace, LAMBDA e : e.ev \in {"send", "retry"})
        lastFail == LastOf(trace, {k \in 1 .. Len(trace) :
                                      trace[k].ev \in {"send", "retry"} /\ ~trace[k].ok})
        lastClear == LastOf(trace, {k \in 1 .. Len(trace) :
                                       trace[k].ev = "retry" /\ trace[k].ok})
    IN  [infoAt |-> IF \E k \in 1 .. Len(trace) :
                          trace[k].ev = "call" /\ Rated(trace[k].level)
                    THEN t ELSE h.infoAt,
         infoTryAt |-> IF \E k \in 1 .. Len(trace) :
                             trace[k].ev = "send" /\ Rated(trace[k].level)
                       THEN t ELSE h.infoTryAt,
         infoOkAt |-> IF \E k \in 1 .. Len(trace) :
                            trace[k].ev = "send" /\ Rated(trace[k].level) /\ trace[k].ok
                      THEN t ELSE h.infoOkAt,
         attempt |-> IF attempts = <<>> THEN h.attempt
                     ELSE IF attempts[Len(attempts)].ok THEN "ok" ELSE "failed",
         owed |-> IF lastFail = 0 /\ lastClear = 0 THEN h.owed
                  ELSE lastFail > lastClear,
         failed |-> IF lastFail = 0 /\ lastClear = 0 THEN h.failed
                    ELSE IF lastFail > lastClear THEN trace[lastFail].what
                    ELSE EmptyLog]

\* the step's trace; the history of the logger is kept only where the logger
\* is followed on its own (LoggerSpec)
Logged(trace) == logTrace' = trace /\ logHist' = logHist

\* the step's trace and the history it leaves
Followed(trace) == logTrace' = trace /\ logHist' = HistAfter(logHist, trace, now)

Quiet == wrote' = {} /\ applied' = {} /\ tried' = NoTry /\ Logged(<<>>)

\* the locals of handleHTTPRequests and handleBatchCommands go out of scope
\* (the model also clears a local at its last use)
DropLocals ==
    /\ request' = <<>> /\ timeout' = 0 /\ contentLength' = 0
    /\ headersComplete' = FALSE /\ body' = <<>> /\ bodyTimeout' = 0
    /\ cmdCount' = 0 /\ cmdIdx' = 0 /\ executedCount' = 0

\* setup(): initializeDevices(), then loop() starts
Init ==
    /\ now \in StartTimes
    /\ boot = now
    /\ pc = "poll"
    /\ devices = [i \in DevIdx |-> OffState]
    /\ pinOut = [i \in DevIdx |-> OffLevel(i)]
    /\ wifiLogger = [lastLog |-> EmptyLog, hasPendingLog |-> FALSE, lastSendTime |-> 0]
    /\ connOpen = FALSE
    /\ request = <<>> /\ timeout = 0 /\ contentLength = 0
    /\ headersComplete = FALSE /\ body = <<>> /\ bodyTimeout = 0
    /\ cmdCount = 0 /\ cmdIdx = 0 /\ executedCount = 0
    /\ wrote = {} /\ applied = {} /\ tried = NoTry /\ logTrace = <<>>
    /\ logHist = NoLogHist
    /\ lastCmd = [i \in DevIdx |-> NoCmd]
    /\ resp = <<>> /\ branch = "none"

(***************************************************************************)
(* loop(): handleHTTPRequests                                              *)
(***************************************************************************)
\* mutant of Stop: the connection is left open
Stop_leavesOpen == connOpen' = connOpen

\* client.stop()
Stop == connOpen' = FALSE

\* server.available() returns no client
PollNoClient ==
    /\ pc = "poll"
    /\ pc' = "tick"
    /\ Quiet
    /\ UNCHANGED <<now, boot, wifiLogger, connOpen>>
    /\ UNCHANGED <<readerVars, batchVars, storeVars, connHist>>

\* server.available() returns a client
Accept ==
    /\ pc = "poll"
    /\ U32(now - boot) < MaxAccept
    /\ connOpen' = TRUE
    /\ request' = <<>>
    /\ timeout' = U32(now + HEADER_TIMEOUT)
    /\ contentLength' = 0
    /\ headersComplete' = FALSE
    /\ pc' = "headers"
    /\ Quiet
    /\ UNCHANGED <<now, boot, wifiLogger, body, bodyTimeout>>
    /\ UNCHANGED <<batchVars, storeVars, connHist>>

\* the header loop's condition; conn: what client.connected() returns
HeaderLoopRuns(conn) == conn /\ now < timeout /\ ~headersComplete

\* one pass of the header loop with a line available
ReadHeaderLine ==
    /\ pc = "headers"
    /\ HeaderLoopRuns(TRUE)
    /\ \E line \in NextLines(request) :
        /\ request' = request \o line \o <<"\n">>
        /\ contentLength' = ParseLength(line, contentLength)
        /\ headersComplete' = (Len(line) = 1 /\ line[1] = "\r")
    /\ Quiet
    /\ UNCHANGED <<now, boot, pc, wifiLogger, connOpen>>
    /\ UNCHANGED <<timeout, body, bodyTimeout, batchVars, storeVars, connHist>>

\* passes of the header loop with nothing available: only the clock moves.
\* Either the client is slow to start, or it sends nothing more and the loop
\* spins until the timeout
HeaderWait ==
    /\ pc = "headers"
    /\ HeaderLoopRuns(TRUE)
    /\ \/ /\ request = <<>>
          /\ \E d \in HeaderDelays : now + d < timeout /\ now' = now + d
       \/ now' = timeout
    /\ Quiet
    /\ UNCHANGED <<boot, pc, wifiLogger, connOpen>>
    /\ UNCHANGED <<readerVars, batchVars, storeVars, connHist>>

\* the header loop ends (headers complete, timeout, or the client is gone):
\* the body phase is entered or skipped
HeaderDone ==
    /\ pc = "headers"
    /\ \E conn \in BOOLEAN : ~HeaderLoopRuns(conn)
    /\ IF WantsBody(headersComplete, contentLength, request)
       THEN /\ pc' = "body"
            /\ bodyTimeout' = U32(now + BODY_TIMEOUT)
            /\ UNCHANGED contentLength
       ELSE /\ pc' = "route"
            /\ bodyTimeout' = 0
            /\ contentLength' = 0
    /\ body' = <<>>
    /\ timeout' = 0
    /\ Quiet
    /\ UNCHANGED <<now, boot, wifiLogger, connOpen>>
    /\ UNCHANGED <<request, headersComplete>>
    /\ UNCHANGED <<batchVars, storeVars, connHist>>

\* the body loop's condition; conn: what client.connected() returns
BodyLoopRuns(conn) == conn /\ now < bodyTimeout /\ Len(body) < contentLength

\* one pass of the body loop with a byte available, and its delay(1)
ReadBodyByte ==
    /\ pc = "body"
    /\ BodyLoopRuns(TRUE)
    /\ \E c \in NextBody(body) : body' = Append(body, c)
    /\ now' = U32(now + BODY_POLL_DELAY)
    /\ Quiet
    /\ UNCHANGED <<boot, pc, wifiLogger, connOpen>>
    /\ UNCHANGED <<request, timeout, contentLength, headersComplete, bodyTimeout>>
    /\ UNCHANGED <<batchVars, storeVars, connHist>>

\* passes of the body loop with nothing available: the client sends nothing
\* more and the loop spins until the timeout
BodyWait ==
    /\ pc = "body"
    /\ BodyLoopRuns(TRUE)
    /\ now' = bodyTimeout
    /\ Quiet
    /\ UNCHANGED <<boot, pc, wifiLogger, connOpen>>
    /\ UNCHANGED <<readerVars, batchVars, storeVars, connHist>>

\* the body loop ends (all bytes read, timeout, or the client is gone):
\* request += body
BodyDone ==
    /\ pc = "body"
    /\ \E conn \in BOOLEAN : ~BodyLoopRuns(conn)
    /\ request' = request \o body
    /\ pc' = "route"
    /\ body' = <<>> /\ bodyTimeout' = 0 /\ contentLength' = 0
    /\ Quiet
    /\ UNCHANGED <<now, boot, wifiLogger, connOpen>>
    /\ UNCHANGED <<timeout, headersComplete>>
    /\ UNCHANGED <<batchVars, storeVars, connHist>>

\* a handler that answers, returns, and client.stop() follows
Answer(b, r) ==
    /\ branch' = b
    /\ resp' = Append(resp, r)
    /\ Stop
    /\ pc' = "tick"
    /\ DropLocals
    /\ wrote' = {} /\ applied' = {} /\ tried' = NoTry
    /\ UNCHANGED <<now, boot, storeVars>>

handleStatusQuery ==
    /\ pc = "route"
    /\ RouterBranch(request) = "status"
    /\ Answer("status", Response(200, "status", "", 0))
    /\ Logged(<<>>)
    /\ UNCHANGED wifiLogger

handleCORSPreflight ==
    /\ pc = "route"
    /\ RouterBranch(request) = "cors"
    /\ Answer("cors", Response(200, "cors", "", 0))
    /\ Logged(<<>>)
    /\ UNCHANGED wifiLogger

\* the else branch: a warn log event, then send404
send404 ==
    /\ pc = "route"
    /\ RouterBranch(request) = "notfound"
    /\ \E collectorUp \in BOOLEAN :
        LET L == log(WithTrace(wifiLogger), "warn", "unknown_request", "http",
                     now, collectorUp)
        IN  wifiLogger' = Fields(L) /\ Logged(L.trace)
    /\ Answer("notfound", Response(404, "notfound", "", 0))

\* handleBatchCommands: no "{" in the request
BatchNoJson ==
    /\ pc = "route"
    /\ RouterBranch(request) = "batch"
    /\ JsonData(request) = <<>>
    /\ Answer("batch", Response(400, "error", "No JSON found", 0))
    /\ Logged(<<>>)
    /\ UNCHANGED wifiLogger

\* handleBatchCommands: deserializeJson reports an error
BatchParseError ==
    /\ pc = "route"
    /\ RouterBranch(request) = "batch"
    /\ JsonData(request) # <<>>
    /\ \E collectorUp \in BOOLEAN :
        LET error == deserializeJson(JsonData(request))
            L == log(WithTrace(wifiLogger), "error", "json_parse", "json_parse",
                     now, collectorUp)
        IN  /\ ~error.ok
            /\ wifiLogger' = Fields(L) /\ Logged(L.trace)
            /\ Answer("batch", Response(400, "error", error.err, 0))

\* handleBatchCommands: the document parsed, the for-loop starts
BatchParsed ==
    /\ pc = "route"
    /\ RouterBranch(request) = "batch"
    /\ JsonData(request) # <<>>
    /\ LET error == deserializeJson(JsonData(request))
       IN  /\ error.ok
           /\ cmdCount' = error.n
    /\ cmdIdx' = 0
    /\ executedCount' = 0
    /\ branch' = "batch"
    /\ pc' = "cmds"
    /\ request' = <<>>
    /\ Quiet
    /\ UNCHANGED <<now, boot, wifiLogger, connOpen>>
    /\ UNCHANGED <<timeout, contentLength, headersComplete, body, bodyTimeout>>
    /\ UNCHANGED <<storeVars, resp>>

\* mutant of AfterCommand: a command that fails ends the loop
AfterCommand_abortOnFailure(idx, count, ok) == IF ok THEN idx + 1 ELSE count

\* the for-loop's advance after a command returned ok or not: on to the next
\* element
AfterCommand(idx, count, ok) == idx + 1

\* one pass of the for-loop: the element's fields (one of elems), the mapping,
\* the command
ForLoopPass(elems) ==
    /\ pc = "cmds"
    /\ cmdIdx < cmdCount
    /\ \E cmd \in elems, collectorUp \in BOOLEAN :
        LET mappedDevice == mapDeviceId(cmd.dev)
            mappedAction == mapActionType(cmd.act)
            R == executeDeviceCommand(
                     [devices |-> devices, pinOut |-> pinOut, L |-> WithTrace(wifiLogger)],
                     mappedDevice, mappedAction, cmd.val, cmd.dur, now, collectorUp)
            i == FindDevice(mappedDevice)
        IN  /\ devices' = R.devices
            /\ pinOut' = R.pinOut
            /\ wrote' = R.wrote
            /\ applied' = IF R.ok THEN {i} ELSE {}
            /\ lastCmd' = IF R.ok
                          THEN [lastCmd EXCEPT ![i] =
                                   [act |-> mappedAction, val |-> cmd.val,
                                    dur |-> cmd.dur, t0 |-> now]]
                          ELSE lastCmd
            /\ wifiLogger' = Fields(R.L)
            /\ Logged(R.L.trace)
            /\ executedCount' = IF R.ok THEN executedCount + 1 ELSE executedCount
            /\ tried' = [dev |-> i, act |-> mappedAction]
            /\ cmdIdx' = AfterCommand(cmdIdx, cmdCount, R.ok)
    /\ UNCHANGED <<now, boot, pc, connOpen>>
    /\ UNCHANGED <<readerVars, cmdCount, resp, branch>>

ExecCommand == ForLoopPass(Cmds)

\* the for-loop is over: the 200 response with the executed count
BatchRespond ==
    /\ pc = "cmds"
    /\ cmdIdx >= cmdCount
    /\ Answer("batch", Response(200, "batch", "", executedCount))
    /\ Logged(<<>>)
    /\ UNCHANGED wifiLogger

(***************************************************************************)
(* loop(): checkTimedTasks, retryLastLog, delay(10)                        *)
(***************************************************************************)
checkTimedTasks ==
    /\ pc = "tick"
    /\ \E collectorUp \in BOOLEAN :
        LET R == ScanFrom(0, [devices |-> devices, pinOut |-> pinOut, wrote |-> {},
                              L |-> WithTrace(wifiLogger)], now, collectorUp)
        IN  /\ devices' = R.devices
            /\ pinOut' = R.pinOut
            /\ wrote' = R.wrote
            /\ wifiLogger' = Fields(R.L)
            /\ Logged(R.L.trace)
    /\ applied' = {} /\ tried' = NoTry
    /\ resp' = <<>> /\ branch' = "none"
    /\ pc' = "retry"
    /\ UNCHANGED <<now, boot, connOpen, lastCmd>>
    /\ UNCHANGED <<readerVars, batchVars>>

RetryLastLog ==
    /\ pc = "retry"
    /\ \E collectorUp \in BOOLEAN :
        LET L == retryLastLog(WithTrace(wifiLogger), collectorUp)
        IN  wifiLogger' = Fields(L) /\ Logged(L.trace)
    /\ wrote' = {} /\ applied' = {} /\ tried' = NoTry
    /\ pc' = "delay"
    /\ UNCHANGED <<now, boot, connOpen>>
    /\ UNCHANGED <<readerVars, batchVars, storeVars, connHist>>

\* the model follows the loop while a client may still connect or a deadline
\* is still ahead
Continue ==
    \/ U32(now - boot) < MaxTime
    \/ \E i \in DevIdx : devices[i].endTime > now

Delay ==
    /\ pc = "delay"
    /\ Continue
    /\ now' = U32(now + LOOP_DELAY)
    /\ pc' = "poll"
    /\ Quiet
    /\ UNCHANGED <<boot, wifiLogger, connOpen>>
    /\ UNCHANGED <<readerVars, batchVars, storeVars, connHist>>

Program ==
    \/ PollNoClient \/ Accept
    \/ ReadHeaderLine \/ HeaderWait \/ HeaderDone
    \/ ReadBodyByte \/ BodyWait \/ BodyDone
    \/ handleStatusQuery \/ handleCORSPreflight \/ send404
    \/ BatchNoJson \/ BatchParseError \/ BatchParsed
    \/ ExecCommand \/ BatchRespond
    \/ checkTimedTasks \/ RetryLastLog \/ Delay

Next == Program

Spec == Init /\ [][Next]_vars

\* the processor keeps running loop(): a step of the program that can be
\* taken is taken
FairSpec == Spec /\ WF_vars(Program)

(***************************************************************************)
(* The power command on the proportional actuators, over its whole range   *)
(***************************************************************************)
\* power commands to two proportional actuators, every value of 0..100
PowerCmds ==
    [dev : {"pump1", "pump2"}, act : {"setPwr"}, val : 0..PERCENT_MAX, dur : {0}]

\* the for-loop is about to start on a batch of two elements, which was read
\* (four body bytes, a delay(1) after each) and parsed in the first pass of
\* loop()
PowerInit ==
    /\ boot \in StartTimes
    /\ now = U32(boot + 4 * BODY_POLL_DELAY)
    /\ pc = "cmds"
    /\ devices = [i \in DevIdx |-> OffState]
    /\ pinOut = [i \in DevIdx |-> OffLevel(i)]
    /\ wifiLogger = [lastLog |-> EmptyLog, hasPendingLog |-> FALSE, lastSendTime |-> 0]
    /\ connOpen = TRUE
    /\ request = <<>> /\ timeout = 0 /\ contentLength = 0
    /\ headersComplete = TRUE /\ body = <<>> /\ bodyTimeout = 0
    /\ cmdCount = 2 /\ cmdIdx = 0 /\ executedCount = 0
    /\ wrote = {} /\ applied = {} /\ tried = NoTry /\ logTrace = <<>>
    /\ logHist = NoLogHist
    /\ lastCmd = [i \in DevIdx |-> NoCmd]
    /\ resp = <<>> /\ branch = "batch"

PowerCommand == ForLoopPass(PowerCmds)

PowerSpec == PowerInit /\ [][PowerCommand]_vars

(***************************************************************************)
(* Timed commands when the millisecond clock is about to wrap               *)
(***************************************************************************)
\* boot so late that the clock wraps 24 ms later
WrapStartTimes == {ClockMod - 24}

\* timed commands whose deadline falls before the wrap, on it, and after it
WrapCmds ==
    [dev : {"pump1", "valve1"}, act : {"setPwr", "setSt"}, val : {50},
     dur : {10, 20, 30}]

\* the for-loop is about to start on a batch of two elements, 20 ms before
\* the clock wraps
WrapInit ==
    /\ boot \in WrapStartTimes
    /\ now = U32(boot + 4 * BODY_POLL_DELAY)
    /\ pc = "cmds"
    /\ devices = [i \in DevIdx |-> OffState]
    /\ pinOut = [i \in DevIdx |-> OffLevel(i)]
    /\ wifiLogger = [lastLog |-> EmptyLog, hasPendingLog |-> FALSE, lastSendTime |-> 0]
    /\ connOpen = TRUE
    /\ request = <<>> /\ timeout = 0 /\ contentLength = 0
    /\ headersComplete = TRUE /\ body = <<>> /\ bodyTimeout = 0
    /\ cmdCount = 2 /\ cmdIdx = 0 /\ executedCount = 0
    /\ wrote = {} /\ applied = {} /\ tried = NoTry /\ logTrace = <<>>
    /\ logHist = NoLogHist
    /\ lastCmd = [i \in DevIdx |-> NoCmd]
    /\ resp = <<>> /\ branch = "batch"

WrapCommand == ForLoopPass(WrapCmds)

WrapNext ==
    \/ WrapCommand \/ BatchRespond
    \/ checkTimedTasks \/ RetryLastLog \/ Delay \/ PollNoClient

WrapSpec == WrapInit /\ [][WrapNext]_vars

(***************************************************************************)
(* The logger on its own: the log calls of one pass of loop() (made by      *)
(* handleHTTPRequests and checkTimedTasks), then retryLastLog, then the     *)
(* next pass                                                                *)
(***************************************************************************)
\* a log call and whether the collector accepts the connection it makes
LogCalls == [level : {"info", "debug", "warn", "error"}, up : BOOLEAN]

\* the log calls one pass makes
CallSeqs ==
    UNION {[1 .. n -> LogCalls] : n \in 0 .. MaxCalls}

\* how long a pass takes up to the next one (the handler has waited for its
\* client): less than the send interval, one millisecond less than it, and
\* the interval itself; the calls of one pass fall in the same millisecond
PassTimes == {400, MIN_SEND_INTERVAL - 1, MIN_SEND_INTERVAL}

RECURSIVE LogAll(_, _, _)
LogAll(L, calls, t) ==
    IF calls = <<>> THEN L
    ELSE LogAll(log(L, calls[1].level, "event", "system", t, calls[1].up),
                Tail(calls), t)

LoggerCalls ==
    /\ pc = "poll"
    /\ \E calls \in CallSeqs :
        LET L == LogAll(WithTrace(wifiLogger), calls, now)
        IN  wifiLogger' = Fields(L) /\ Followed(L.trace)
    /\ pc' = "retry"
    /\ UNCHANGED <<now, boot, devices, pinOut, connOpen, wrote, applied, tried>>
    /\ UNCHANGED <<readerVars, batchVars, lastCmd, connHist>>

LoggerRetry ==
    /\ pc = "retry"
    /\ \E collectorUp \in BOOLEAN :
        LET L == retryLastLog(WithTrace(wifiLogger), collectorUp)
        IN  wifiLogger' = Fields(L) /\ Followed(L.trace)
    /\ pc' = "delay"
    /\ UNCHANGED <<now, boot, devices, pinOut, connOpen, wrote, applied, tried>>
    /\ UNCHANGED <<readerVars, batchVars, lastCmd, connHist>>

LoggerDelay ==
    /\ pc = "delay"
    /\ \E d \in PassTimes :
        /\ U32(now - boot) + d <= MaxLogTime
        /\ now' = U32(now + d)
    /\ pc' = "poll"
    /\ Followed(<<>>)
    /\ UNCHANGED <<boot, devices, pinOut, wifiLogger, connOpen, wrote, applied, tried>>
    /\ UNCHANGED <<readerVars, batchVars, lastCmd, connHist>>

LoggerNext == LoggerCalls \/ LoggerRetry \/ LoggerDelay

LoggerSpec == Init /\ [][LoggerNext]_vars

\* loop() keeps running
FairLoggerSpec == LoggerSpec /\ WF_vars(LoggerNext)

(***************************************************************************)
(* Properties                                                              *)
(***************************************************************************)
\* a step of checkTimedTasks
TickStep == pc = "tick" /\ pc' = "retry"

\* the last command applied to actuator i was a timed one
TimedCmd(i) == lastCmd[i].dur > 0 /\ lastCmd[i].val > 0

\* C1: after a command with duration > 0 and value > 0 applied to an actuator
\* at t0, a scheduler tick at a clock time t < t0 + duration leaves the
\* actuator's currentValue, isActive and deadline as they are and writes
\* nothing to its pin.
C1_TickBeforeDeadline ==
    [][TickStep =>
        \A i \in DevIdx :
            (TimedCmd(i) /\ now < lastCmd[i].t0 + lastCmd[i].dur)
                => /\ devices'[i] = devices[i]
                   /\ pinOut'[i] = pinOut[i]
                   /\ i \notin wrote']_vars

\* a tick has just run before the deadline of a timed command, which is
\* still pending on an active actuator
C1_Witness ==
    /\ pc = "retry"
    /\ \E i \in DevIdx :
        /\ TimedCmd(i)
        /\ now > lastCmd[i].t0
        /\ now < lastCmd[i].t0 + lastCmd[i].dur
        /\ devices[i].isActive
        /\ devices[i].endTime = lastCmd[i].t0 + lastCmd[i].dur

\* C2: a scheduler tick at a clock time t >= deadline of an actuator with a
\* pending deadline writes the pin off and sets currentValue = 0, isActive =
\* FALSE and no deadline; a tick finding no deadline on an actuator (such as
\* any further tick after the revert, with no command in between) writes
\* nothing to it and changes nothing of it.
C2_TickRevertsOnce ==
    [][TickStep =>
        \A i \in DevIdx :
            /\ (devices[i].endTime > 0 /\ now >= devices[i].endTime)
                   => /\ devices'[i].currentValue = 0
                      /\ devices'[i].isActive = FALSE
                      /\ devices'[i].endTime = 0
                      /\ pinOut'[i].level = 0
                      /\ i \in wrote'
            /\ devices[i].endTime = 0
                   => /\ devices'[i] = devices[i]
                      /\ pinOut'[i] = pinOut[i]
                      /\ i \notin wrote']_vars

\* a tick has just passed, writing nothing, over an actuator that an earlier
\* tick reverted when the deadline of its timed command had passed
C2_Witness ==
    /\ pc = "retry"
    /\ wrote = {}
    /\ \E i \in DevIdx :
        /\ TimedCmd(i)
        /\ now >= lastCmd[i].t0 + lastCmd[i].dur + LOOP_DELAY
        /\ devices[i].endTime = 0
        /\ ~devices[i].isActive
        /\ pinOut[i].level = 0

\* C3: an actuator with a pending deadline does not keep it for ever, and a
\* pending deadline goes away or changes only by the scheduler reverting the
\* actuator (pin written, currentValue = 0, isActive = FALSE, no deadline) or
\* by a command applied to that actuator.
C3_RevertNeverSkipped ==
    /\ \A i \in DevIdx : []<>(devices[i].endTime = 0)
    /\ [][\A i \in DevIdx :
            (devices[i].endTime > 0 /\ devices'[i].endTime # devices[i].endTime)
                => \/ i \in applied'
                   \/ /\ TickStep
                      /\ i \in wrote'
                      /\ devices'[i].currentValue = 0
                      /\ devices'[i].isActive = FALSE
                      /\ devices'[i].endTime = 0]_vars

\* the scheduler has just reverted an actuator more than a header timeout
\* after its deadline: a request held the loop in between
C3_Witness ==
    /\ pc = "retry"
    /\ \E i \in wrote :
        /\ TimedCmd(i)
        /\ now >= lastCmd[i].t0 + lastCmd[i].dur + HEADER_TIMEOUT
        /\ devices[i].endTime = 0

\* C4: a deadline is pending on an actuator only if the last command applied
\* to it had a positive duration and a positive value; so after an applied
\* command with value 0 or without duration the actuator has no deadline.
C4_DeadlineOnlyFromTimedCmd ==
    \A i \in DevIdx : devices[i].endTime > 0 => TimedCmd(i)

\* a command with value > 0 and without duration has just been applied to an
\* actuator (whose pin stays on), and the actuator has no deadline
C4_Witness ==
    /\ pc = "cmds"
    /\ \E i \in applied :
        /\ lastCmd[i].val > 0
        /\ lastCmd[i].dur = 0
        /\ devices[i].isActive
        /\ devices[i].endTime = 0

PassStep == pc = "cmds" /\ tried' # NoTry

\* the number of elements of "cmds" in the request text
ElementsSent(req) == Len(SelectSeq(req, LAMBDA tok : tok = "c"))

\* C6: once the JSON of a batch has parsed, the for-loop starts at the first
\* element with a count of 0; every pass takes the next element of the array,
\* whether the command succeeds or fails, and adds one to the count exactly
\* when the command was applied (a pin was written); the loop ends only
\* after the last element, with a single response of status 200 that reports
\* the count.
C6_BatchInOrder ==
    [][/\ (pc = "route" /\ pc' = "cmds")
            => /\ cmdCount' = ElementsSent(request)
               /\ cmdIdx' = 0
               /\ executedCount' = 0
               /\ resp' = <<>>
       /\ PassStep
            => /\ cmdIdx < cmdCount
               /\ cmdIdx' = cmdIdx + 1
               /\ cmdCount' = cmdCount
               /\ executedCount' = executedCount + (IF wrote' # {} THEN 1 ELSE 0)
               /\ pc' = "cmds"
               /\ resp' = <<>>
       /\ (pc = "cmds" /\ ~PassStep)
            => /\ cmdIdx = cmdCount
               /\ pc' = "tick"
               /\ resp' = <<[status |-> 200, kind |-> "batch", error |-> "",
                             executed |-> executedCount]>>]_vars

\* a batch has been answered with status 200 and executed = 1 although one of
\* its commands failed on an unknown device (the error entry of that command,
\* written in this pass of loop(), is the logger's pending entry)
C6_Witness ==
    /\ pc = "tick"
    /\ branch = "batch"
    /\ resp = <<[status |-> 200, kind |-> "batch", error |-> "", executed |-> 1]>>
    /\ wifiLogger.hasPendingLog
    /\ wifiLogger.lastLog.message = "unknown_device"
    /\ wifiLogger.lastLog.timestamp = now

\* the command a pass has run is one that executeDeviceCommand fails: unknown
\* device, power action on an actuator that is not proportional, unknown
\* action
FailingTry(c) ==
    \/ c.dev = -1
    \/ c.dev \in DevIdx /\ c.act \in {"power", "set_power"} /\ ~isPWM[c.dev + 1]
    \/ c.act \notin {"power", "set_power", "state", "set_state"}

\* C7: a pass of the for-loop whose command fails (one of the three causes,
\* or any pass that does not count the command as executed) writes no pin,
\* changes currentValue, isActive and deadline of no actuator, and is not
\* counted.
C7_FailedNotApplied ==
    [][(PassStep /\ (FailingTry(tried') \/ executedCount' = executedCount))
            => /\ devices' = devices
               /\ pinOut' = pinOut
               /\ wrote' = {}
               /\ applied' = {}
               /\ executedCount' = executedCount]_vars

\* a power command has just failed on a binary actuator that is active with
\* a deadline pending
C7_Witness ==
    /\ pc = "cmds"
    /\ tried # NoTry
    /\ tried.dev \in DevIdx
    /\ ~isPWM[tried.dev + 1]
    /\ tried.act = "power"
    /\ wrote = {}
    /\ devices[tried.dev].isActive
    /\ devices[tried.dev].endTime > now

\* the request line is POST /api/commands
IsBatchPost(req) ==
    Len(req) >= 2 /\ req[1] = "POST" /\ req[2] = " /api/commands"

\* the body of a request: what follows the empty line (nothing when there is
\* no empty line)
BodyOf(req) ==
    IF Contains(req, <<"\n", "\r", "\n">>)
    THEN LET k == CHOOSE k \in 1 .. Len(req) - 2 :
                      /\ SubSeq(req, k, k + 2) = <<"\n", "\r", "\n">>
                      /\ \A j \in 1 .. k - 1 :
                             SubSeq(req, j, j + 2) # <<"\n", "\r", "\n">>
         IN  SubSeq(req, k + 3, Len(req))
    ELSE <<>>

\* a body that is a whole JSON document
WholeJson(b) ==
    /\ b # <<>>
    /\ b[1] = "{"
    /\ \E k \in 2 .. Len(b) : b[k] = "}" /\ \A j \in 2 .. k - 1 : b[j] = "c"

\* C8: a POST /api/commands request whose body is missing, truncated or no
\* JSON is answered at once with a single response of status 400 and a
\* non-empty error, no actuator's state or pin changes and no command is
\* run.
C8_BadBodyRejected ==
    [][(pc = "route" /\ IsBatchPost(request) /\ ~WholeJson(BodyOf(request)))
            => /\ pc' = "tick"
               /\ Len(resp') = 1
               /\ resp'[1].status = 400
               /\ resp'[1].error # ""
               /\ devices' = devices
               /\ pinOut' = pinOut
               /\ applied' = {}]_vars

\* C9: for a request whose header phase ended without the empty line (the
\* timeout expired or the client went away), no response is written.
C9_IncompleteHeadersSilent ==
    [][((pc = "route" \/ pc = "cmds") /\ ~headersComplete) => resp' = <<>>]_vars

\* the router's precedence, on the raw request text
Precedence(req) ==
    IF Contains(req, <<"POST", " /api/commands">>) THEN "batch"
    ELSE IF Contains(req, <<"GET", " /api/status">>) THEN "status"
    ELSE IF Contains(req, <<"OPTIONS">>) THEN "cors"
    ELSE "notfound"

\* C10: the router takes the branch the precedence order gives for the raw
\* request, and when the connection has been served exactly that one branch
\* has run and written exactly one response (404 together with a warn log
\* call in the last branch); the connection is open while it is served and
\* closed when loop() goes on to checkTimedTasks, after every branch.
C10_OneBranchThenClose ==
    /\ [][pc = "route" => branch' = Precedence(request)]_vars
    /\ [][(branch # "none" /\ pc # "tick") => branch' = branch]_vars
    /\ [][(pc = "route" /\ pc' = "tick" /\ Precedence(request) = "notfound")
             => /\ resp' = <<[status |-> 404, kind |-> "notfound", error |-> "",
                              executed |-> 0]>>
                /\ logTrace' # <<>>
                /\ logTrace'[1] = [ev |-> "call", level |-> "warn", ok |-> TRUE]]_vars
    /\ [][(pc = "route" /\ pc' = "tick" /\ Precedence(request) = "batch")
             => (Len(resp') = 1 /\ resp'[1].status = 400)]_vars
    /\ [](pc \in {"headers", "body", "route", "cmds"} => connOpen)
    /\ [](pc \in {"poll", "tick", "retry", "delay"} => ~connOpen)
    /\ []((pc = "tick" /\ branch # "none") => Len(resp) = 1)
    /\ []((pc = "tick" /\ branch = "none") => resp = <<>>)
    /\ [](pc \in {"headers", "body", "route"} => (branch = "none" /\ resp = <<>>))

\* the batch handler has returned early with a 400 response and the
\* connection is closed
C10_Witness ==
    /\ pc = "tick"
    /\ branch = "batch"
    /\ Len(resp) = 1
    /\ resp[1].status = 400
    /\ ~connOpen

\* the transmission attempts a trace holds for info and debug entries
RatedSends(trace) ==
    SelectSeq(trace, LAMBDA e : e.ev = "send" /\ Rated(e.level))

\* the step made an info or debug log call
RatedCall(trace) ==
    \E k \in 1 .. Len(trace) : trace[k].ev = "call" /\ Rated(trace[k].level)

\* every error or warn call of the trace is followed by its transmission
\* attempt
UrgentAlwaysSent(trace) ==
    \A k \in 1 .. Len(trace) :
        (trace[k].ev = "call" /\ trace[k].level \in {"error", "warn"})
            => /\ k < Len(trace)
               /\ trace[k + 1].ev = "send"
               /\ trace[k + 1].level = trace[k].level

\* C11: two transmission attempts for info (or debug) entries are never less
\* than 1000 ms apart, so of two info calls within 1000 ms of each other at
\* most one leads to an attempt; every error or warn call leads to an
\* attempt, whenever it is made.
C11_AtMostOneInfoAttempt ==
    [][/\ Len(RatedSends(logTrace')) <= 1
       /\ (RatedSends(logTrace') # <<>> /\ logHist.infoTryAt # -1)
             => U32(now - logHist.infoTryAt) >= 1000
       /\ (RatedCall(logTrace') /\ logHist.infoAt # -1
              /\ U32(now - logHist.infoAt) < 1000
              /\ logHist.infoTryAt = logHist.infoAt)
             => RatedSends(logTrace') = <<>>
       /\ UrgentAlwaysSent(logTrace')]_vars

\* C11 as stated: of two info calls within 1000 ms of each other exactly one
\* leads to a transmission attempt; every error or warn call leads to one.
C11_ExactlyOneInfoAttempt ==
    [][/\ (RatedCall(logTrace') /\ logHist.infoAt # -1
              /\ U32(now - logHist.infoAt) < 1000)
             => ((logHist.infoTryAt = logHist.infoAt) # (RatedSends(logTrace') # <<>>))
       /\ UrgentAlwaysSent(logTrace')]_vars

\* an error call has just led to a transmission attempt, less than 1000 ms
\* after an info call that was dropped, itself less than 1000 ms after an
\* info attempt
C11_Witness ==
    /\ Len(logTrace) = 2
    /\ logTrace[1].ev = "call" /\ logTrace[1].level = "error"
    /\ logTrace[2].ev = "send"
    /\ logHist.infoAt # -1
    /\ logHist.infoTryAt # -1
    /\ logHist.infoTryAt # logHist.infoAt
    /\ U32(logHist.infoAt - logHist.infoTryAt) < 1000
    /\ U32(now - logHist.infoAt) < 1000

\* the first info or debug call of the trace led to a transmission attempt
FirstRatedAttempted(trace) ==
    \E k \in 1 .. Len(trace) :
        /\ trace[k].ev = "call" /\ Rated(trace[k].level)
        /\ \A j \in 1 .. k - 1 : ~(trace[j].ev = "call" /\ Rated(trace[j].level))
        /\ k < Len(trace)
        /\ trace[k + 1].ev = "send"

\* the step made no transmission attempt of any kind
NoAttempt(trace) ==
    \A k \in 1 .. Len(trace) : trace[k].ev = "call"

\* C12: an info or debug call leads to a transmission attempt if and only if
\* at least 1000 ms have elapsed since the last successful transmission of
\* an info or debug entry (a failed attempt does not restart the interval),
\* and a call that is rate-limited leaves the pending entry as it was.
C12_IntervalSinceSuccess ==
    [][/\ RatedCall(logTrace')
             => (FirstRatedAttempted(logTrace')
                   <=> (\/ logHist.infoOkAt = -1
                        \/ U32(now - logHist.infoOkAt) >= 1000))
       /\ (RatedCall(logTrace') /\ NoAttempt(logTrace'))
             => /\ wifiLogger'.lastLog = wifiLogger.lastLog
                /\ wifiLogger'.hasPendingLog = wifiLogger.hasPendingLog]_vars

\* C13: a pending log entry is present if and only if some transmission
\* attempt failed and no retry has succeeded since the most recent failed
\* attempt; so it is present whenever the most recent attempt (by a log call
\* or by a retry) failed; and when present it holds the payload of the most
\* recent failed attempt.
C13_PendingUntilRetrySucceeds ==
    /\ wifiLogger.hasPendingLog <=> logHist.owed
    /\ logHist.attempt = "failed" => wifiLogger.hasPendingLog
    /\ wifiLogger.hasPendingLog => wifiLogger.lastLog = logHist.failed

\* C13 as stated: a pending log entry is present if and only if the most
\* recent transmission attempt failed, and then holds that attempt's payload.
C13_PendingIffLastFailed ==
    /\ wifiLogger.hasPendingLog <=> logHist.attempt = "failed"
    /\ wifiLogger.hasPendingLog => wifiLogger.lastLog = logHist.failed

\* an entry whose transmission failed is still pending after a later log
\* call's entry was transmitted, and a newer failure has replaced an older one
C13_Witness ==
    /\ wifiLogger.hasPendingLog
    /\ logHist.attempt = "ok"
    /\ logTrace # <<>>
    /\ logTrace[Len(logTrace)].ev = "send"
    /\ wifiLogger.lastLog.timestamp # now

\* the step is the retry of one pass of loop()
RetryStep == pc = "retry" /\ pc' = "delay"

\* C14: the retry of every pass of loop() that finds an entry pending makes
\* exactly one attempt, with that entry: on success the entry is cleared, on
\* failure it stays pending unchanged; a pass that finds none pending makes
\* no attempt; no other step retries; and a pending entry does not stay
\* pending once the attempts stop failing: again and again either nothing is
\* pending or the most recent attempt has failed.
C14_RetryOncePerTick ==
    /\ [][/\ (RetryStep /\ wifiLogger.hasPendingLog)
                => /\ Len(logTrace') = 1
                   /\ logTrace'[1].ev = "retry"
                   /\ logTrace'[1].what = wifiLogger.lastLog
                   /\ IF logTrace'[1].ok
                      THEN /\ ~wifiLogger'.hasPendingLog
                           /\ wifiLogger'.lastLog = EmptyLog
                      ELSE wifiLogger' = wifiLogger
          /\ (RetryStep /\ ~wifiLogger.hasPendingLog)
                => logTrace' = <<>> /\ wifiLogger' = wifiLogger
          /\ (\E k \in 1 .. Len(logTrace') : logTrace'[k].ev = "retry")
                => RetryStep]_vars
    /\ []<>(~wifiLogger.hasPendingLog \/ logHist.attempt = "failed")

\* a retry has just transmitted and cleared an entry that an earlier retry
\* had failed to transmit
C14_Witness ==
    /\ pc = "delay"
    /\ Len(logTrace) = 1
    /\ logTrace[1].ev = "retry"
    /\ logTrace[1].ok
    /\ logTrace[1].what.timestamp # now
    /\ ~wifiLogger.hasPendingLog

\* C15: a state command addressed to a proportional (PWM) actuator fails: it
\* writes no pin, leaves currentValue, isActive and the deadline of every
\* actuator unchanged, and is not counted in executed.
C15_StateOnlyOnBinary ==
    [][(/\ PassStep
        /\ tried'.dev \in DevIdx
        /\ isPWM[tried'.dev + 1]
        /\ tried'.act = "state")
            => /\ devices' = devices
               /\ pinOut' = pinOut
               /\ wrote' = {}
               /\ applied' = {}
               /\ executedCount' = executedCount]_vars

\* C16: the body loop is entered only when the header loop saw the empty
\* line, the request line's method is POST and the Content-Length parsed is
\* above 0; the body never holds more bytes than Content-Length; and when the
\* body loop ends, whatever was read is appended to the request as it is.
C16_BodyOnlyForPost ==
    [][/\ (pc = "headers" /\ pc' = "body")
            => /\ headersComplete
               /\ request # <<>> /\ request[1] = "POST"
               /\ contentLength > 0
       /\ pc' = "body" => Len(body') <= contentLength'
       /\ (pc = "body" /\ pc' = "route") => request' = request \o body]_vars

\* control is in handleHTTPRequests with a client
Servicing == pc \in {"headers", "body", "route", "cmds"}

\* C17: servicing a connection always ends, whatever the client does: the
\* header loop is never inside after its timeout and the body loop never
\* after its own, the connection is open only while it is serviced (it is
\* closed when control is back in loop()), and from every state in which a
\* connection is serviced the program reaches the end of that pass of
\* loop(), with checkTimedTasks and retryLastLog run again.
C17_ServicingTerminates ==
    /\ [](/\ connOpen <=> Servicing
          /\ pc = "headers" => now <= timeout
          /\ pc = "body" => now <= bodyTimeout)
    /\ Servicing ~> (pc = "delay" /\ ~connOpen)

\* a connection whose client was slow to start its headers and then stalled
\* in the body until the body timeout has been answered and closed
C17_Witness ==
    /\ pc = "tick"
    /\ ~connOpen
    /\ branch # "none"
    /\ U32(now - boot) >= (HEADER_TIMEOUT - 1) + BODY_TIMEOUT

\* C18: a pass of the for-loop whose action, after translation, is anything
\* other than power or state fails: it writes no pin, changes no actuator and
\* is not counted in executed.
C18_OtherActionsFail ==
    [][(PassStep /\ tried'.act \notin {"power", "state"})
            => /\ devices' = devices
               /\ pinOut' = pinOut
               /\ wrote' = {}
               /\ applied' = {}
               /\ executedCount' = executedCount]_vars

\* C19: an applied command with a duration and a value above 0 leaves the
\* deadline now + duration (modulo the clock's range), which is never the
\* "no deadline" value 0, also when the sum wraps; and checkTimedTasks does
\* not revert the actuator before the duration has elapsed.
C19_DeadlineSurvivesWrap ==
    [][\A i \in DevIdx :
        /\ (PassStep /\ i \in applied'
              /\ lastCmd'[i].dur > 0 /\ lastCmd'[i].val > 0)
             => /\ devices'[i].endTime = U32(now + lastCmd'[i].dur)
                /\ devices'[i].endTime # 0
        /\ (TickStep /\ i \in wrote' /\ TimedCmd(i))
             => U32(now - lastCmd[i].t0) >= lastCmd[i].dur]_vars

\* C20: in every reachable state an actuator with a deadline pending is
\* active with a currentValue above 0, and an actuator that is not active has
\* no deadline pending; every power value of the protocol's range above 0
\* gives a driver value above 0.
C20_DeadlineImpliesActive ==
    /\ \A i \in DevIdx :
        /\ devices[i].endTime > 0
             => devices[i].isActive /\ devices[i].currentValue > 0
        /\ ~devices[i].isActive => devices[i].endTime = 0
    /\ \A v \in 1 .. PERCENT_MAX : map(v, 0, PERCENT_MAX, 0, PWM_MAX) > 0

\* one actuator is active with its deadline pending while another one, timed
\* as well, has been reverted by the scheduler
C20_Witness ==
    \E i, j \in DevIdx :
        /\ i # j
        /\ devices[i].endTime > 0 /\ devices[i].isActive
        /\ devices[i].currentValue > 0
        /\ TimedCmd(j)
        /\ devices[j] = OffState

=============================================================================
